---- MODULE Spec2Model ----
(***************************************************************************)
(* Local persistence and Gist synchronisation of the attendance PWA.       *)
(*                                                                         *)
(* The bundle holds two scripts with separate databases and separate files *)
(* of the gist:                                                            *)
(*   - the app (AsistenciasDB): handleAttendanceSubmit, saveDataToGist,    *)
(*     loadDataFromGist, initialDataLoad, fetchWithBackoff;                *)
(*   - the evidence module (AsistenciasPRODB): saveEvidenceForUser and     *)
(*     syncToGist.                                                         *)
(* Every async function is a task that advances one await at a time, so    *)
(* tasks interleave exactly at the storage and network suspension points.  *)
(* The functions are entry points: the environment calls them with         *)
(* arguments drawn from small sets.                                        *)
(***************************************************************************)
EXTENDS Integers, Sequences, FiniteSets, TLC

\* ---- bounds of the model ----
\* calls made in one behaviour
MaxCalls == 3
\* calls in progress at the same time
MaxInFlight == 2

\* ---- program constants ----
\* fetchWithBackoff(url, options, retries = 5)
Retries == 5

Null == "null"
NaN == "NaN"

\* HTTP outcomes of one fetch: a status, or NetErr when fetch itself throws.
NetErr == 0
Statuses == {200, 403, 404, 500, NetErr}

\* response.ok
ResponseOk(status) == status >= 200 /\ status <= 299

\* Math.pow(2, i), the backoff of attempt i in seconds
RECURSIVE Pow2(_)
Pow2(i) == IF i = 0 THEN 1 ELSE 2 * Pow2(i - 1)

\* Behaviours of the remote endpoint (the environment).
Endpoints == {"up", "notfound", "error", "offline", "flaky"}

Respond(mode) ==
    CASE mode = "up" -> {200}
      [] mode = "notfound" -> {404}
      [] mode = "error" -> {403, 500}
      [] mode = "offline" -> {NetErr}
      [] OTHER -> Statuses

\* ---- records ----
INITIAL_USERS ==
    (1 :> [name |-> "Ana López", dni |-> "12345678A", totalAssists |-> 5, lastAssistance |-> Null]) @@
    (2 :> [name |-> "Roberto Gómez", dni |-> "87654321B", totalAssists |-> 3, lastAssistance |-> Null]) @@
    (3 :> [name |-> "Carla Pérez", dni |-> "11223344C", totalAssists |-> 8, lastAssistance |-> Null])

NoRecords == << >>

\* One form of the attendance modal: a filled one, and a blank one
\* (parseFloat("") is NaN, no file chosen).
Forms ==
    { [date |-> "2024-01-10", amount |-> "12.50", image |-> "data:image/jpeg"],
      [date |-> "", amount |-> NaN, image |-> Null] }

\* The cards handleUserSelect is clicked on (currentUserId is null, here 0,
\* until the first click)
SelectableUsers == {1, 2}

\* gistId / token handed to the sync functions; "" is an empty field
GistIds == {"", "g1"}
Tokens == {"", "ghp"}

\* The file asistencias_pro_data.json of the gist: absent, or the JSON document.
NoFile == [exists |-> FALSE, users |-> NoRecords, evidences |-> NoRecords]

\* A document another device of the same app pushed earlier.
OtherDeviceDoc ==
    [exists |-> TRUE,
     users |-> (1 :> [name |-> "Ana López", dni |-> "12345678A", totalAssists |-> 6,
                      lastAssistance |-> "2024-01-09"]),
     evidences |-> (1 :> [userId |-> 1, date |-> "2024-01-09", amount |-> "30.00",
                          image |-> "data:image/png"])]

\* JSON.stringify of one value: NaN is written as null, everything else of the
\* model's values survives.
JsonValue(v) == IF v = NaN THEN Null ELSE v

JsonEvidence(e) ==
    [userId |-> e.userId, date |-> e.date, amount |-> JsonValue(e.amount), image |-> e.image]

\* JSON.stringify(dataToSave) followed by the server storing the file
Stringify(us, evs) ==
    [exists |-> TRUE, users |-> us,
     evidences |-> [k \in DOMAIN evs |-> JsonEvidence(evs[k])]]

\* The evidence module's gist file (gestion_asistencias_pro_full.json): the
\* store 'users' of AsistenciasPRODB belongs to the host page, the module only
\* reads it.
HostUsers ==
    (7 :> [name |-> "Promotor 7", totalAssists |-> 5, lastAssistance |-> Null])

\* { key: 'gist', value: { id, token } } of the store 'config' of AsistenciasPRODB
ProConfigs == {[id |-> g, token |-> k] : g \in GistIds, k \in Tokens}

\* Mutant: only the document id is tested.
ConfiguredIdOnly(gistId, token) == gistId # ""

\* `!gistId || !token` of lines 238, 583, 617 and `gistId && token` of 968, 987
Configured(gistId, token) == gistId # "" /\ token # ""

\* Outcome of one IndexedDB request: it succeeds, or its onerror fires.
StorageOutcomes == {TRUE, FALSE}

VARIABLES
    users,        \* object store 'users' of AsistenciasDB: id -> record
    evidences,    \* object store 'evidences' of AsistenciasDB: id -> record
    evGen,        \* key generator of 'evidences' (autoIncrement): last key used
    remote,       \* the gist file asistencias_pro_data.json
    syncStatus,   \* textContent of #sync-status
    notification, \* type of the last showNotification
    currentUserId,\* the app's global: the selected worker, 0 when none (null)
    submitDisabled, \* `disabled` of the button btn-submit-attendance
    savedConfig,  \* value of the 'gist_config' entry of the store 'config' of AsistenciasDB
    refused,      \* history: the scripts ("app", "module") whose push or pull has failed
                  \* with 404 since their sync configuration was last saved
    expected,     \* history: per worker, its totalAssists at the last bulk load or
                  \* seeding plus the evidence records stored for it since
    proUsers,     \* object store 'users' of AsistenciasPRODB
    proEvidences, \* object store 'evidences' of AsistenciasPRODB: id -> record
    proConfig,    \* value of the 'gist' entry of the store 'config' of AsistenciasPRODB
    remotePro,    \* the gist file gestion_asistencias_pro_full.json
    localIndex,   \* localStorage['evidencias_index']
    toast,        \* last showToast of the evidence module
    activeUserId, \* the module's global: the active worker, 0 when none (null)
    tipoActual,   \* the module's global: kind of the next capture, Null at first
    pendingSync,  \* setTimeout callbacks of line 326 that have not run yet
    endpoint,     \* how api.github.com answers in this behaviour
    sw,           \* the service worker script that controls the page
    swCache,      \* Cache Storage: the response kept for GET /gists/:id, if any
    servedFromCache, \* history: a request to api.github.com was answered from Cache Storage
    task,         \* the async calls in progress or finished, one per slot
    held,         \* history: per slot of a push that has read the workers and not yet
                  \* the evidence records, the pairs <<workers, evidence records>> the
                  \* stores have held since that read
    calls         \* number of calls started

storeVars == <<users, evidences, evGen, expected>>
formVars == <<submitDisabled, savedConfig, refused>>
uiVars == <<syncStatus, notification, currentUserId>>
proStoreVars == <<proUsers, proEvidences, proConfig, localIndex>>
swVars == <<sw, swCache, servedFromCache>>
captureVars == <<activeUserId, tipoActual, pendingSync>>
modVars == <<proUsers, proEvidences, proConfig, localIndex, remotePro, toast, captureVars>>
vars == <<users, evidences, evGen, remote, syncStatus, notification, currentUserId, expected, proUsers, proEvidences,
          proConfig, remotePro, localIndex, toast, activeUserId, tipoActual, pendingSync, submitDisabled, savedConfig, refused,
          endpoint, sw, swCache, servedFromCache, task, held, calls>>

Slots == 1..MaxInFlight

\* Arguments of saveEvidenceForUser(userId, dateISO, tipo, dataUrl, ocrResult)
NoArgs == [userId |-> 0, dateISO |-> "", tipo |-> "", dataUrl |-> Null, ocrResult |-> Null]

EvidenceArgs ==
    [userId : {7}, dateISO : {"2024-01-10", "2024-01-11"}, tipo : {"entrada", "salida"},
     dataUrl : {"data:img1", "data:img2"}, ocrResult : {Null, "08:00"}]

\* The captures of one worker on one day, entry and exit
InterleavedEvidenceArgs ==
    {a \in EvidenceArgs : a.dateISO = "2024-01-10" /\ a.dataUrl = "data:img1" /\ a.ocrResult = Null}

\* Result of store.get(key): undefined, or the record
NotFound == [found |-> FALSE]

Idle ==
    [kind |-> "idle", pc |-> "done", gistId |-> "", token |-> "", i |-> 0, requests |-> 0,
     waits |-> << >>, body |-> NoFile, ret |-> "", data |-> NoFile, result |-> "",
     uid |-> 0, form |-> [date |-> "", amount |-> NaN, image |-> Null],
     allUsers |-> NoRecords, args |-> NoArgs, existing |-> NotFound]

Free(t) == task[t].pc = "done"

\* A call takes the first free slot; what the slot held of a finished call is dropped.
CanCall(t) == calls < MaxCalls /\ Free(t) /\ \A u \in Slots : Free(u) => t <= u

\* A call that has returned keeps its arguments, its outcome and the trace of
\* its requests; its locals are gone.
Settle(r) ==
    IF r.pc = "done"
    THEN [Idle EXCEPT !.kind = r.kind, !.gistId = r.gistId, !.token = r.token,
                      !.requests = r.requests, !.waits = r.waits, !.result = r.result,
                      !.data = IF r.kind = "pull" THEN r.data ELSE NoFile,
                      !.args = r.args]
    ELSE r

\* saveDataToGist between `await getAll(STORES.USERS)` and
\* `await getAll(STORES.EVIDENCES)`
BetweenReads(r) == r.kind = "push" /\ r.pc = "getEvidences"

\* The history of the pushes between their two reads, as slot t is left in r:
\* a push that has just read the workers starts with what the stores hold, and
\* the others have seen what the stores held before this step.
HeldNext(t, r) ==
    [u \in Slots |->
       LET now == {<<users, evidences>>}
       IN  IF u = t
           THEN IF BetweenReads(r) THEN now ELSE {}
           ELSE IF BetweenReads(task[u]) THEN held[u] \cup now ELSE {}]

Call(t, r) ==
    /\ CanCall(t)
    /\ calls' = calls + 1
    /\ task' = [task EXCEPT ![t] = Settle(r)]
    /\ held' = HeldNext(t, r)

Step(t, r) ==
    /\ calls' = calls
    /\ task' = [task EXCEPT ![t] = Settle(r)]
    /\ held' = HeldNext(t, r)

Totals(us) == [u \in DOMAIN us |-> us[u].totalAssists]

\* Nothing is cached for the remote document when the page is first controlled.
NothingCached == [cached |-> FALSE, file |-> NoFile]

\* navigator.serviceWorker.register('./sw.js')
InitServiceWorker ==
    /\ sw = "sw.js"
    /\ swCache = NothingCached
    /\ servedFromCache = FALSE

InitApp ==
    /\ evidences = NoRecords
    /\ submitDisabled = FALSE
    /\ savedConfig = NotFound
    /\ refused = {}
    /\ evGen = 0
    /\ currentUserId = 0
    /\ syncStatus = ""
    /\ notification = ""
    /\ held = [t \in Slots |-> {}]

InitModule ==
    /\ proUsers = HostUsers
    /\ proEvidences = NoRecords
    /\ remotePro = NoFile
    /\ localIndex = << >>
    /\ toast = ""
    /\ activeUserId = 0
    /\ tipoActual = Null
    /\ pendingSync = 0

\* The app with its handlers interleaving: the gist holds the document of
\* another device, the endpoint answers or is unreachable.
Init ==
    /\ InitApp
    /\ InitModule
    /\ InitServiceWorker
    /\ users \in {NoRecords, INITIAL_USERS}
    /\ expected = Totals(users)
    /\ remote = OtherDeviceDoc
    /\ proConfig = [id |-> "g1", token |-> "ghp"]
    /\ endpoint \in {"up", "offline"}
    /\ task = [t \in Slots |-> Idle]
    /\ calls = 0

\* ---- fetchWithBackoff ----
\* Mutant: the catch never rethrows, the last failure is followed by a wait.
FetchAttemptSwallowed(r, status) ==
    IF status = 200
    THEN [r EXCEPT !.requests = @ + 1, !.pc = "returned", !.ret = "response"]
    ELSE [r EXCEPT !.requests = @ + 1, !.pc = "wait"]

\* One pass of the try block: the request was answered with `status`.
FetchAttempt(r, status) ==
    LET r1 == [r EXCEPT !.requests = @ + 1]
    IN  IF ResponseOk(status)
        THEN [r1 EXCEPT !.pc = "returned", !.ret = "response"]
        ELSE IF status = 404 \/ status = NetErr
        THEN \* the throw of line 533, or fetch's own throw, lands in the catch
             IF r.i = Retries - 1
             THEN [r1 EXCEPT !.pc = "returned", !.ret = "threw"]
             ELSE [r1 EXCEPT !.pc = "wait"]
        ELSE [r1 EXCEPT !.pc = "wait"]

\* Mutant: the loop is left without the wait that follows the last attempt.
FetchBackoffSkipLast(r) ==
    IF r.i = Retries - 1
    THEN [r EXCEPT !.i = @ + 1, !.pc = "returned", !.ret = "undefined"]
    ELSE [r EXCEPT !.waits = Append(@, Pow2(r.i)), !.i = @ + 1, !.pc = "fetch"]

\* Mutant: the attempt counter is not advanced after the wait.
FetchBackoffNoCount(r) == [r EXCEPT !.pc = "fetch"]

\* The setTimeout of line 543 fires, i++ and the loop test.
FetchBackoff(r) ==
    LET r1 == [r EXCEPT !.waits = Append(@, Pow2(r.i)), !.i = @ + 1]
    IN  IF r1.i < Retries
        THEN [r1 EXCEPT !.pc = "fetch"]
        ELSE [r1 EXCEPT !.pc = "returned", !.ret = "undefined"]

\* ---- saveDataToGist ----
\* What follows `await fetchWithBackoff(url, options)` in the try of line 653.
SaveStatusText(ret) ==
    IF ret = "threw" THEN "Error de Sincronización" ELSE "Sincronizado"

saveDataToGistEnd(t, r) ==
    /\ Step(t, [r EXCEPT !.pc = "done", !.result = "resolved"])
    /\ syncStatus' = SaveStatusText(r.ret)
    /\ UNCHANGED <<storeVars, notification, currentUserId>>

\* ---- loadDataFromGist ----
\* response.json(), gist.files[...], JSON.parse(file.content)
loadDataFromGistEnd(t, r, file) ==
    /\ Step(t, IF r.ret = "response" /\ file.exists
               THEN [r EXCEPT !.pc = "done", !.result = "resolved", !.data = file]
               ELSE [r EXCEPT !.pc = "done", !.result = "rejected"])
    /\ UNCHANGED <<storeVars, uiVars>>

\* ---- IndexedDB helpers ----
\* store.put(data): insert or replace under the record's key
Put(store, key, rec) ==
    [k \in DOMAIN store \cup {key} |-> IF k = key THEN rec ELSE store[k]]

\* Mutant: keys given explicitly do not advance the key generator.
MaxKeyIgnored(store, least) == least

MaxKey(store, least) ==
    IF DOMAIN store = {} THEN least
    ELSE LET m == CHOOSE k \in DOMAIN store : \A j \in DOMAIN store : j <= k
         IN  IF m > least THEN m ELSE least

\* Mutant: the last item of the array is never added.
FirstItemsButLast(dataArray, k) ==
    [id \in {j \in DOMAIN dataArray : Cardinality({h \in DOMAIN dataArray : h <= j}) < k}
       |-> dataArray[id]]

\* The first k items of dataArray (arrays of records are in key order)
FirstItems(dataArray, k) ==
    [id \in {j \in DOMAIN dataArray : Cardinality({h \in DOMAIN dataArray : h <= j}) <= k}
       |-> dataArray[id]]

\* How far the requests of one clearAndBulkAdd get: request 0 is store.clear(),
\* request k the k-th store.add; `failed` is the request whose onerror fires,
\* or during which the page is closed. Committed: none fails.
Committed(dataArray) == Cardinality(DOMAIN dataArray) + 1

BulkOutcomes(dataArray) == 0..Committed(dataArray)

\* Mutant: every request is its own transaction, so what ran before the
\* failing request stays.
ClearAndBulkAddPerRequest(store, dataArray, failed) ==
    IF failed = 0 THEN store ELSE FirstItems(dataArray, failed - 1)

\* clearAndBulkAdd(storeName, dataArray): one readwrite transaction that clears
\* the store and adds every item under its own id (every record of a pushed
\* document carries the id its store gave it, so `delete item.id` never
\* applies). No onerror handler calls preventDefault, so a failing request
\* aborts the transaction and the store is as before.
ClearAndBulkAdd(store, dataArray, failed) ==
    IF failed = Committed(dataArray)
    THEN FirstItems(dataArray, Cardinality(DOMAIN dataArray))
    ELSE store

\* ---- initialDataLoad ----
\* The catch of line 1014: notify, then render what getAll(USERS) returns.
initialDataLoadCaught(t, r) ==
    /\ \E ok \in StorageOutcomes :
         Step(t, [r EXCEPT !.pc = "done", !.result = IF ok THEN "caught" ELSE "rejected"])
    /\ notification' = "error"
    /\ syncStatus' = "Error de Carga Remota"
    /\ currentUserId' = currentUserId

initialDataLoadCatch(t, r) ==
    /\ initialDataLoadCaught(t, r)
    /\ UNCHANGED storeVars

\* loadDataFromGist has settled inside initialDataLoad; on success
\* clearAndBulkAdd(STORES.USERS, remoteData.users) is issued.
initialDataLoadPulled(t, r, file) ==
    IF r.ret = "response" /\ file.exists
    THEN \E failed \in BulkOutcomes(file.users) :
           /\ users' = ClearAndBulkAdd(users, file.users, failed)
           /\ IF failed = Committed(file.users)
              THEN /\ Step(t, [r EXCEPT !.pc = "bulkEvidences", !.data = file,
                                         \* history: the workers before the replace
                                         !.allUsers = users])
                   /\ expected' = Totals(users')
                   /\ UNCHANGED <<evidences, evGen, uiVars>>
              ELSE /\ initialDataLoadCaught(t, r)
                   /\ UNCHANGED <<evidences, evGen, expected>>
    ELSE initialDataLoadCatch(t, r)

\* Mutant: a push that has been answered is continued as a load.
ContinueAsLoad(t, r, file) ==
    IF r.pc # "returned"
    THEN Step(t, r) /\ UNCHANGED <<storeVars, uiVars>>
    ELSE initialDataLoadPulled(t, r, file)

\* The caller's continuation once fetchWithBackoff has returned or thrown.
Continue(t, r, file) ==
    IF r.pc # "returned"
    THEN Step(t, r) /\ UNCHANGED <<storeVars, uiVars>>
    ELSE IF r.kind = "push"
    THEN saveDataToGistEnd(t, r)
    ELSE IF r.kind = "pull"
    THEN loadDataFromGistEnd(t, r, file)
    ELSE initialDataLoadPulled(t, r, file)

\* Mutant: the server merges the patch into the workers it already holds.
PatchMerged(file, body) ==
    [exists |-> TRUE, users |-> file.users @@ body.users, evidences |-> body.evidences]

\* PATCH /gists/:id with files: { [GIST_FILENAME]: { content } }: the content
\* of the file is replaced as a whole.
Patch(file, body) == body

\* ---- the service workers (sw.js and the three unnamed scripts) ----
ServiceWorkers == {"sw.js", "part_000", "part_001", "part_002"}

\* options.method of the request a call sends to api.github.com
Method(kind) == IF kind = "push" THEN "PATCH" ELSE "GET"

\* Whether the fetch listener keeps the network's response to a request to
\* api.github.com. sw.js answers such a GET in its network-first branch, which
\* stores nothing, and ignores other methods; part_001 returns before
\* respondWith; part_000 and part_002, having no branch for that origin, treat
\* it as a local resource and put every 200 response (cache.put accepts only
\* GET requests).
Stores(worker, method, status) ==
    worker \in {"part_000", "part_002"} /\ method = "GET" /\ status = 200

\* What the page receives when the network fails (fetch rejects) for a request
\* to api.github.com: the listener's fallback. caches.match finds an entry only
\* for a GET that was stored; respondWith(undefined) is a network error.
Fallback(worker, method, cache) ==
    IF worker = "part_001" \/ (worker = "sw.js" /\ method # "GET")
    THEN [status |-> NetErr, cached |-> FALSE]
    ELSE IF method = "GET" /\ cache.cached
    THEN [status |-> 200, cached |-> TRUE]
    ELSE IF worker = "part_002"
    THEN [status |-> 504, cached |-> FALSE]
    ELSE [status |-> NetErr, cached |-> FALSE]

\* What the page receives for a request the network answered with `status`
\* (NetErr: no answer)
ClientSees(worker, method, status, cache) ==
    IF status = NetErr
    THEN Fallback(worker, method, cache)
    ELSE [status |-> status, cached |-> FALSE]

\* A request of task t passes the fetch listener of the service worker and is
\* answered by the network or by the listener.
fetchThroughWorker(t) ==
    /\ task[t].pc = "fetch"
    /\ \E status \in Respond(endpoint) :
         LET method == Method(task[t].kind)
             seen == ClientSees(sw, method, status, swCache)
             r == FetchAttempt(task[t], seen.status)
             patched == task[t].kind = "push" /\ ResponseOk(status)
         IN  /\ remote' = IF patched THEN Patch(remote, task[t].body) ELSE remote
             /\ swCache' = IF Stores(sw, method, status)
                           THEN [cached |-> TRUE, file |-> remote] ELSE swCache
             /\ servedFromCache' = (servedFromCache \/ seen.cached)
             /\ Continue(t, r, IF seen.cached THEN swCache.file ELSE remote)
             /\ refused' = IF seen.status = 404 /\ r.pc = "returned"
                           THEN refused \cup {"app"} ELSE refused
    /\ UNCHANGED <<endpoint, sw, modVars, submitDisabled, savedConfig>>

\* A request of task t is answered.
fetchWithBackoff(t) ==
    /\ task[t].pc = "fetch"
    /\ \E status \in Respond(endpoint) :
         LET r == FetchAttempt(task[t], status)
             patched == task[t].kind = "push" /\ ResponseOk(status)
         IN  /\ remote' = IF patched THEN Patch(remote, task[t].body) ELSE remote
             /\ Continue(t, r, remote)
             /\ refused' = IF status = 404 /\ r.pc = "returned"
                           THEN refused \cup {"app"} ELSE refused
    /\ UNCHANGED <<endpoint, swVars, modVars, submitDisabled, savedConfig>>

\* The backoff timer of task t fires.
backoff(t) ==
    /\ task[t].pc = "wait"
    /\ Continue(t, FetchBackoff(task[t]), remote)
    /\ UNCHANGED <<remote, endpoint, swVars, modVars, formVars>>

\* saveDataToGist(gistId, token) is called: the guard of line 617, then the
\* first getAll is issued at once.
saveDataToGistCall(gistId, token, ok) ==
    LET r == [Idle EXCEPT !.kind = "push", !.gistId = gistId, !.token = token]
    IN  IF ~Configured(gistId, token)
        THEN [r EXCEPT !.result = "skipped"]
        ELSE IF ok
        THEN [r EXCEPT !.pc = "getEvidences", !.allUsers = users]
        ELSE [r EXCEPT !.result = "rejected"]

saveDataToGist(t, gistId, token) ==
    /\ \E ok \in StorageOutcomes : Call(t, saveDataToGistCall(gistId, token, ok))
    /\ UNCHANGED <<storeVars, uiVars, remote, endpoint, swVars, modVars, formVars>>

\* The evidence list a push sends: what getAll(STORES.EVIDENCES) returns
PushedEvidences(t) == evidences

\* const evidences = await getAll(STORES.EVIDENCES); the payload is built and
\* the first request leaves.
saveDataToGistRead(t) ==
    /\ task[t].kind = "push" /\ task[t].pc = "getEvidences"
    /\ \E ok \in StorageOutcomes :
         IF ok
         THEN Step(t, [task[t] EXCEPT !.pc = "fetch",
                                      !.body = Stringify(task[t].allUsers, PushedEvidences(t))])
         ELSE Step(t, [task[t] EXCEPT !.pc = "done", !.result = "rejected"])
    /\ UNCHANGED <<storeVars, uiVars, remote, endpoint, swVars, modVars, formVars>>

\* loadDataFromGist(gistId, token) is called directly.
loadDataFromGist(t, gistId, token) ==
    /\ LET r == [Idle EXCEPT !.kind = "pull", !.gistId = gistId, !.token = token]
       IN  IF ~Configured(gistId, token)
           THEN Call(t, [r EXCEPT !.result = "rejected"])
           ELSE Call(t, [r EXCEPT !.pc = "fetch"])
    /\ UNCHANGED <<storeVars, uiVars, remote, endpoint, swVars, modVars, formVars>>

\* ---- handleUserSelect / handleAttendanceSubmit ----
\* handleUserSelect(userId, userName): a card of the grid is clicked; the grid
\* shows the workers of the store.
handleUserSelect(userId) ==
    /\ userId \in DOMAIN users
    /\ currentUserId # userId
    /\ currentUserId' = userId
    /\ UNCHANGED <<storeVars, syncStatus, notification, remote, endpoint, swVars, modVars, formVars, task, held, calls>>

\* getGistConfig() of the app: `await store.get(CONFIG_KEY)` awaits an
\* IDBRequest, which is no promise, so `config` is the request itself and
\* `config.value` is undefined whatever the store holds.
getGistConfig == [defined |-> FALSE, gistId |-> "", token |-> ""]

NewEvidence(userId, form) ==
    [userId |-> userId, date |-> form.date, amount |-> form.amount, image |-> form.image]

\* userToUpdate.totalAssists = (userToUpdate.totalAssists || 0) + 1; lastAssistance = dateValue
UpdatedUser(u, dateValue) ==
    [u EXCEPT !.totalAssists = @ + 1, !.lastAssistance = dateValue]

\* The catch of line 938.
handleAttendanceSubmitCatch(r) == [r EXCEPT !.pc = "done", !.result = "storageError"]

\* newEvidence is built and put(STORES.EVIDENCES, newEvidence) is issued.
PutEvidence(r, ok) ==
    IF ok
    THEN /\ evidences' = Put(evidences, evGen + 1, NewEvidence(currentUserId, r.form))
         /\ evGen' = evGen + 1
         /\ expected' = [u \in DOMAIN expected |->
                            IF u = currentUserId THEN expected[u] + 1 ELSE expected[u]]
         /\ notification' = notification
    ELSE /\ UNCHANGED <<evidences, evGen, expected>>
         /\ notification' = "error"

PutEvidenceNext(r, ok) ==
    IF ok THEN [r EXCEPT !.pc = "getAll", !.uid = currentUserId]
    ELSE handleAttendanceSubmitCatch(r)

\* ---- handleImageUpload (app) ----
\* runOCR(imageFile): with Tesseract undefined the simulated { date, amount }
\* after 1.5 s; with Tesseract loaded the body that would recognise is commented
\* out (lines 727-744) and the function returns undefined.
runOCR(tesseract) == IF tesseract THEN "undefined" ELSE "simulated"

\* The `change` event of #imageUpload: with a file, readAsDataURL is started.
handleImageUpload(t, file) ==
    /\ LET r == [Idle EXCEPT !.kind = "upload", !.form.image = file]
       IN  IF file = Null
           THEN Call(t, [r EXCEPT !.result = "noFile"])
           ELSE Call(t, [r EXCEPT !.pc = "readFile"])
    /\ UNCHANGED <<storeVars, uiVars, formVars, remote, endpoint, swVars, modVars>>

\* reader.onload: the preview, then `await runOCR(file)`. Of an undefined
\* result `ocrResult.date` throws: the catch of line 862 disables the button.
handleImageUploadLoaded(t) ==
    /\ task[t].kind = "upload" /\ task[t].pc = "readFile"
    /\ \E tesseract \in BOOLEAN :
         IF runOCR(tesseract) = "undefined"
         THEN /\ Step(t, [task[t] EXCEPT !.pc = "done", !.result = "ocrFailed"])
              /\ submitDisabled' = TRUE
         ELSE /\ Step(t, [task[t] EXCEPT !.pc = "simulate"])
              /\ submitDisabled' = submitDisabled
    /\ UNCHANGED <<storeVars, syncStatus, notification, currentUserId, savedConfig, refused,
                   remote, endpoint, swVars, modVars>>

\* The simulated result arrives: the date and the amount of the form are
\* filled from it and the button is enabled.
handleImageUploadFilled(t) ==
    /\ task[t].kind = "upload" /\ task[t].pc = "simulate"
    /\ Step(t, [task[t] EXCEPT !.pc = "done", !.result = "simulated"])
    /\ submitDisabled' = FALSE
    /\ UNCHANGED <<storeVars, syncStatus, notification, currentUserId, savedConfig, refused,
                   remote, endpoint, swVars, modVars>>

\* Mutant: the check for a selected worker never rejects.
NoWorkerIgnored(id) == FALSE

\* `!currentUserId` of line 881 and `!activeUserId` of line 308
NoWorker(id) == id = 0

\* The submit event: the guard of line 881; with a file chosen the handler
\* first awaits the FileReader, without one it goes straight to the put.
handleAttendanceSubmit(t, form) ==
    LET r == [Idle EXCEPT !.kind = "submit", !.form = form]
    IN  IF NoWorker(currentUserId)
        THEN /\ Call(t, [r EXCEPT !.result = "noUser"])
             /\ UNCHANGED <<storeVars, uiVars, remote, endpoint, swVars, modVars, formVars>>
        ELSE IF form.image # Null
        THEN /\ Call(t, [r EXCEPT !.pc = "readFile"])
             /\ UNCHANGED <<storeVars, uiVars, remote, endpoint, swVars, modVars, formVars>>
        ELSE /\ \E ok \in StorageOutcomes :
                  Call(t, PutEvidenceNext(r, ok)) /\ PutEvidence(r, ok)
             /\ UNCHANGED <<users, syncStatus, currentUserId, remote, endpoint, swVars, modVars, formVars>>

\* The submit event reaches the form only through an enabled button.
submitAttendance(t, form) ==
    /\ ~submitDisabled
    /\ handleAttendanceSubmit(t, form)

\* reader.onload: the image is read, the put is issued.
handleAttendanceSubmitPut(t) ==
    /\ task[t].kind = "submit" /\ task[t].pc = "readFile"
    /\ \E ok \in StorageOutcomes :
         Step(t, PutEvidenceNext(task[t], ok)) /\ PutEvidence(task[t], ok)
    /\ UNCHANGED <<users, syncStatus, currentUserId, remote, endpoint, swVars, modVars, formVars>>

\* const allUsers = await getAll(STORES.USERS)
handleAttendanceSubmitGetAll(t) ==
    /\ task[t].kind = "submit" /\ task[t].pc = "getAll"
    /\ \E ok \in StorageOutcomes :
         IF ok
         THEN /\ Step(t, [task[t] EXCEPT !.pc = "putUser", !.allUsers = users])
              /\ notification' = notification
         ELSE /\ Step(t, handleAttendanceSubmitCatch(task[t]))
              /\ notification' = "error"
    /\ UNCHANGED <<storeVars, syncStatus, currentUserId, remote, endpoint, swVars, modVars, formVars>>

\* Step 4 of the handler: config = await getGistConfig();
\* saveDataToGist(config.gistId, config.token) is started and not awaited. With
\* config undefined the property access throws into the catch of line 938.
SyncInBackground(r, config) ==
    IF config.defined
    THEN saveDataToGistCall(config.gistId, config.token, TRUE)
    ELSE [r EXCEPT !.pc = "done", !.result = "saved"]

BackgroundNotification(config) == IF config.defined THEN "success" ELSE "error"

\* userToUpdate = allUsers.find(u => u.id === currentUserId); the worker is
\* put back with its count raised; then step 4.
handleAttendanceSubmitPutUser(t) ==
    /\ task[t].kind = "submit" /\ task[t].pc = "putUser"
    /\ LET found == currentUserId \in DOMAIN task[t].allUsers
       IN  \E ok \in StorageOutcomes :
             IF found /\ ~ok
             THEN /\ Step(t, handleAttendanceSubmitCatch(task[t]))
                  /\ notification' = "error"
                  /\ users' = users
             ELSE /\ Step(t, SyncInBackground(task[t], getGistConfig))
                  /\ notification' = BackgroundNotification(getGistConfig)
                  /\ users' = IF found
                               THEN Put(users, currentUserId,
                                        UpdatedUser(task[t].allUsers[currentUserId],
                                                    task[t].form.date))
                               ELSE users
    /\ UNCHANGED <<evidences, evGen, expected, syncStatus, currentUserId, remote, endpoint, swVars, modVars, formVars>>

\* ---- initialDataLoad, the calls ----
initialDataLoad(t, gistId, token) ==
    LET r == [Idle EXCEPT !.kind = "load", !.gistId = gistId, !.token = token]
    IN  /\ IF Configured(gistId, token)
           THEN /\ Call(t, [r EXCEPT !.pc = "fetch"])
                /\ UNCHANGED <<storeVars, uiVars>>
           ELSE \E ok \in StorageOutcomes :
                  IF ok
                  THEN /\ Call(t, [r EXCEPT !.pc = "seed", !.allUsers = users])
                       /\ UNCHANGED <<storeVars, uiVars>>
                  ELSE /\ CanCall(t)
                       /\ calls' = calls + 1
                       /\ \E ok2 \in StorageOutcomes :
                            task' = [task EXCEPT ![t] =
                                      Settle([r EXCEPT !.result = IF ok2 THEN "caught" ELSE "rejected"])]
                       /\ held' = HeldNext(t, r)
                       /\ notification' = "error"
                       /\ syncStatus' = "Error de Carga Remota"
                       /\ UNCHANGED <<storeVars, currentUserId>>
        /\ UNCHANGED <<remote, endpoint, swVars, modVars, formVars>>

\* await clearAndBulkAdd(STORES.EVIDENCES, remoteData.evidences), then the
\* success notification and the status line.
\* ---- handleConfigSubmit (app) ----
\* The record updateGistConfig puts: { key: CONFIG_KEY, value: config }
SavedConfig(gistId, token) == [found |-> TRUE, value |-> [gistId |-> gistId, token |-> token]]

\* Mutant: the handler stops after saving the configuration.
LoadAfterSubmitSkipped(r) == [r EXCEPT !.pc = "done", !.result = "saved"]

\* `await initialDataLoad(gistId, token)` of line 975, with both values
\* non-empty: loadDataFromGist is started with them.
LoadAfterSubmit(r) == [Idle EXCEPT !.kind = "load", !.gistId = r.gistId, !.token = r.token,
                                   !.pc = "fetch"]

\* The submit event of the configuration form, gistId and token trimmed: with
\* both present the put of updateGistConfig is issued, else the error
\* notification. A failed put rejects the handler.
handleConfigSubmit(t, gistId, token) ==
    /\ LET r == [Idle EXCEPT !.kind = "config", !.gistId = gistId, !.token = token]
       IN  IF Configured(gistId, token)
           THEN \E ok \in StorageOutcomes :
                  IF ok
                  THEN /\ Call(t, [r EXCEPT !.pc = "saved"])
                       /\ savedConfig' = SavedConfig(gistId, token)
                       /\ refused' = refused \ {"app"}
                       /\ notification' = notification
                  ELSE /\ Call(t, [r EXCEPT !.result = "rejected"])
                       /\ UNCHANGED <<savedConfig, refused, notification>>
           ELSE /\ Call(t, [r EXCEPT !.result = "invalid"])
                /\ notification' = "error"
                /\ UNCHANGED <<savedConfig, refused>>
    /\ UNCHANGED <<storeVars, syncStatus, currentUserId, submitDisabled, remote, endpoint, swVars, modVars>>

\* The put has succeeded: the modal is closed, the success notification shown
\* and initialDataLoad called.
handleConfigSubmitSaved(t) ==
    /\ task[t].kind = "config" /\ task[t].pc = "saved"
    /\ Step(t, LoadAfterSubmit(task[t]))
    /\ notification' = "success"
    /\ UNCHANGED <<storeVars, syncStatus, currentUserId, formVars, remote, endpoint, swVars, modVars>>

initialDataLoadEvidences(t) ==
    /\ task[t].kind = "load" /\ task[t].pc = "bulkEvidences"
    /\ \E failed \in BulkOutcomes(task[t].data.evidences) :
         /\ evidences' = ClearAndBulkAdd(evidences, task[t].data.evidences, failed)
         /\ IF failed = Committed(task[t].data.evidences)
            THEN /\ Step(t, [task[t] EXCEPT !.pc = "done", !.result = "loaded"])
                 /\ evGen' = MaxKey(evidences', evGen)
                 /\ notification' = "success"
                 /\ syncStatus' = "Sincronizado"
                 /\ UNCHANGED <<users, expected, currentUserId>>
            ELSE /\ initialDataLoadCaught(t, task[t])
                 /\ UNCHANGED <<users, evGen, expected>>
    /\ UNCHANGED <<remote, endpoint, swVars, modVars, formVars>>

\* The branch of line 1000: seed an empty users store with INITIAL_USERS.
initialDataLoadSeed(t) ==
    /\ task[t].kind = "load" /\ task[t].pc = "seed"
    /\ IF task[t].allUsers = NoRecords
       THEN \E failed \in BulkOutcomes(INITIAL_USERS) :
              /\ users' = ClearAndBulkAdd(users, INITIAL_USERS, failed)
              /\ IF failed = Committed(INITIAL_USERS)
                 THEN /\ Step(t, [task[t] EXCEPT !.pc = "done", !.result = "local"])
                      /\ expected' = Totals(users')
                      /\ notification' = "error"
                      /\ syncStatus' = "Modo Local (Sin Gist)"
                      /\ UNCHANGED <<evidences, evGen, currentUserId>>
                 ELSE /\ initialDataLoadCaught(t, task[t])
                      /\ UNCHANGED <<evidences, evGen, expected>>
       ELSE /\ Step(t, [task[t] EXCEPT !.pc = "done", !.result = "local"])
            /\ notification' = "error"
            /\ syncStatus' = "Modo Local (Sin Gist)"
            /\ UNCHANGED <<storeVars, currentUserId>>
    /\ UNCHANGED <<remote, endpoint, swVars, modVars, formVars>>

\* ---- saveEvidenceForUser (evidence module) ----
\* const id = `${userId}_${dateISO}`
EvidenceId(userId, dateISO) == ToString(userId) \o "_" \o dateISO

idbGet(store, key) ==
    IF key \in DOMAIN store THEN [found |-> TRUE, record |-> store[key]] ELSE NotFound

\* const record = existing || { id, userId, fecha, entrada: null, ... }
\* (the timestamp of creation is left out)
ExistingOrNew(existing, a) ==
    IF existing.found
    THEN existing.record
    ELSE [id |-> EvidenceId(a.userId, a.dateISO), userId |-> a.userId, fecha |-> a.dateISO,
          entrada |-> Null, salida |-> Null, validatedEntry |-> Null, validatedExit |-> Null]

\* ocrResult || true
Validated(ocrResult) == IF ocrResult = Null \/ ocrResult = "" THEN "true" ELSE ocrResult

\* Mutant: a slot that holds an image keeps it.
WithEvidenceKeepFirst(record, a) ==
    IF a.tipo = "entrada"
    THEN IF record.entrada # Null THEN record
         ELSE [record EXCEPT !.entrada = a.dataUrl, !.validatedEntry = Validated(a.ocrResult)]
    ELSE IF record.salida # Null THEN record
         ELSE [record EXCEPT !.salida = a.dataUrl, !.validatedExit = Validated(a.ocrResult)]

\* The if/else of line 157 on the record
WithEvidence(record, a) ==
    IF a.tipo = "entrada"
    THEN [record EXCEPT !.entrada = a.dataUrl, !.validatedEntry = Validated(a.ocrResult)]
    ELSE [record EXCEPT !.salida = a.dataUrl, !.validatedExit = Validated(a.ocrResult)]

\* saveEvidenceForUser is called: idbGet(STORES.EVIDENCES, id) is issued.
saveEvidenceForUser(t, a) ==
    /\ \E ok \in StorageOutcomes :
         LET r == [Idle EXCEPT !.kind = "evidence", !.args = a]
         IN  IF ok
             THEN Call(t, [r EXCEPT !.pc = "put",
                                    !.existing = idbGet(proEvidences,
                                                        EvidenceId(a.userId, a.dateISO))])
             ELSE Call(t, [r EXCEPT !.result = "rejected"])
    /\ UNCHANGED <<storeVars, uiVars, remote, endpoint, swVars, modVars, formVars>>

\* What follows `await saveEvidenceForUser(...)` in the file-change handler:
\* setTimeout(() => syncToGist()..., 300); a direct call schedules nothing.
ScheduledSync(kind) == IF kind = "change" THEN pendingSync + 1 ELSE pendingSync

\* saveEvidenceForUser rethrows; in the file-change handler the catch of line
\* 330 takes it.
SaveRejected(kind) == IF kind = "change" THEN "imageError" ELSE "rejected"

ToastAfterRejection(kind) == IF kind = "change" THEN "Error procesando la imagen." ELSE toast

\* await idbPut(STORES.EVIDENCES, record), the entry of the localStorage
\* index, the toast; the record is returned.
saveEvidenceForUserPut(t) ==
    /\ task[t].kind \in {"evidence", "change"} /\ task[t].pc = "put"
    /\ LET a == task[t].args
           id == EvidenceId(a.userId, a.dateISO)
           record == WithEvidence(ExistingOrNew(task[t].existing, a), a)
       IN  \E ok \in StorageOutcomes :
             IF ok
             THEN /\ Step(t, [task[t] EXCEPT !.pc = "done", !.result = "saved"])
                  /\ proEvidences' = Put(proEvidences, id, record)
                  /\ localIndex' = Append(localIndex,
                                          [id |-> id, userId |-> a.userId,
                                           fecha |-> a.dateISO, tipo |-> a.tipo])
                  /\ toast' = "Evidencia guardada localmente."
                  /\ pendingSync' = ScheduledSync(task[t].kind)
             ELSE /\ Step(t, [task[t] EXCEPT !.pc = "done",
                                             !.result = SaveRejected(task[t].kind)])
                  /\ toast' = ToastAfterRejection(task[t].kind)
                  /\ UNCHANGED <<proEvidences, localIndex, pendingSync>>
    /\ UNCHANGED <<storeVars, uiVars, formVars, remote, endpoint, swVars, proUsers, proConfig, remotePro,
                   activeUserId, tipoActual>>

\* ---- the file-change handler of attachUI (evidence module) ----
\* EvidenceModule.setActiveUser(userId), or the host page setting
\* window.activeUserId, which the handler adopts on line 307
setActiveUser(userId) ==
    /\ activeUserId # userId
    /\ activeUserId' = userId
    /\ UNCHANGED <<storeVars, uiVars, formVars, remote, endpoint, swVars, proStoreVars, remotePro, toast,
                   tipoActual, pendingSync, task, held, calls>>

\* btnE / btnS click: tipoActual = 'entrada' | 'salida'; input.click()
clickCapture(tipo) ==
    /\ tipoActual # tipo
    /\ tipoActual' = tipo
    /\ UNCHANGED <<storeVars, uiVars, formVars, remote, endpoint, swVars, proStoreVars, remotePro, toast,
                   activeUserId, pendingSync, task, held, calls>>

\* What the file input and the date field hold when `change` fires
PickedFiles == {Null, "photo.jpg"}
SelectedDates == {"", "2024-01-10"}

\* fileToDataURL(file, 1200, 0.7): the re-encoded image, or a rejection
\* (reader.onerror, img.onerror)
ImageOutcomes == {"data:img1", "rejected"}

\* doOCRFromDataUrl with Tesseract loaded: it throws inside (null is
\* returned), or recognises an empty or a non-empty text
OcrOutcomes == {Null, "", "08:00"}

\* ocrText ? { raw: ocrText } : null
OcrResult(ocrText) == IF ocrText = Null \/ ocrText = "" THEN Null ELSE ocrText

\* Mutant: a failed decode resolves like a good one.
DecodedAlways(dataUrl) == TRUE

\* `await fileToDataURL(...)` resumes in the try block
Decoded(dataUrl) == dataUrl # "rejected"

\* The catch of line 330
fileChangeCatch(t, r) ==
    /\ Step(t, [r EXCEPT !.pc = "done", !.result = "imageError"])
    /\ toast' = "Error procesando la imagen."

\* The `change` event: the three validations, then fileToDataURL is started.
fileChange(t, file, selectedDate) ==
    /\ LET r == [Idle EXCEPT !.kind = "change",
                              !.args = [NoArgs EXCEPT !.dateISO = selectedDate,
                                                      \* history: the globals at the pick
                                                      !.userId = activeUserId,
                                                      !.tipo = tipoActual]]
       IN  IF file = Null
           THEN /\ Call(t, [r EXCEPT !.result = "noFile"])
                /\ toast' = "No se seleccionó imagen."
           ELSE IF selectedDate = ""
           THEN /\ Call(t, [r EXCEPT !.result = "noDate"])
                /\ toast' = "Selecciona una fecha antes de subir la evidencia."
           ELSE IF NoWorker(activeUserId)
           THEN /\ Call(t, [r EXCEPT !.result = "noUser"])
                /\ toast' = "Selecciona un promotor antes de subir la evidencia."
           ELSE /\ Call(t, [r EXCEPT !.pc = "resize"])
                /\ toast' = toast
    /\ UNCHANGED <<storeVars, uiVars, formVars, remote, endpoint, swVars, proStoreVars, remotePro, captureVars>>

\* saveEvidenceForUser(activeUserId, selectedDate, tipoActual || 'entrada',
\* dataUrl, ocrText ? { raw: ocrText } : null) is called from the handler: the
\* globals are read now, idbGet is issued.
fileChangeSave(t, r, ocrText, shown) ==
    LET a == [userId |-> activeUserId, dateISO |-> r.args.dateISO,
              tipo |-> IF tipoActual = Null THEN "entrada" ELSE tipoActual,
              dataUrl |-> r.args.dataUrl, ocrResult |-> OcrResult(ocrText)]
    IN  \E ok \in StorageOutcomes :
          IF ok
          THEN /\ Step(t, [r EXCEPT !.pc = "put", !.args = a,
                                    !.existing = idbGet(proEvidences,
                                                        EvidenceId(a.userId, a.dateISO))])
               /\ toast' = shown
          ELSE fileChangeCatch(t, r)

\* fileToDataURL settles. With Tesseract absent doOCRFromDataUrl returns null
\* at once and the save follows in the same turn; with Tesseract loaded the
\* recognition is awaited.
fileChangeResized(t) ==
    /\ task[t].kind = "change" /\ task[t].pc = "resize"
    /\ \E dataUrl \in ImageOutcomes :
         IF ~Decoded(dataUrl)
         THEN fileChangeCatch(t, task[t])
         ELSE LET r == [task[t] EXCEPT !.args.dataUrl = dataUrl]
              IN  \E tesseract \in BOOLEAN :
                    IF tesseract
                    THEN /\ Step(t, [r EXCEPT !.pc = "ocr"])
                         /\ toast' = "Iniciando OCR de la imagen..."
                    ELSE fileChangeSave(t, r, Null, toast)
    /\ UNCHANGED <<storeVars, uiVars, formVars, remote, endpoint, swVars, proStoreVars, remotePro, captureVars>>

\* doOCRFromDataUrl settles, the save follows.
fileChangeRecognized(t) ==
    /\ task[t].kind = "change" /\ task[t].pc = "ocr"
    /\ \E ocrText \in OcrOutcomes : fileChangeSave(t, task[t], ocrText, toast)
    /\ UNCHANGED <<storeVars, uiVars, formVars, remote, endpoint, swVars, proStoreVars, remotePro, captureVars>>

\* ---- syncToGist (evidence module) ----
\* getGistConfig of the module: the stored value, or the empty configuration
\* when nothing is stored or the read fails.
ModuleGistConfig(stored, ok) == IF ok THEN stored ELSE [id |-> "", token |-> ""]

\* JSON.stringify({ users, evidences }, null, 2)
StringifyPro(us, evs) == [exists |-> TRUE, users |-> us, evidences |-> evs]

\* syncToGist() is called; cfg = await getGistConfig(), the guard of line 238,
\* then users = await idbGetAll(USERS).
syncToGistStart(t) ==
    /\ \E ok \in StorageOutcomes :
         LET cfg == ModuleGistConfig(proConfig, ok)
             r == [Idle EXCEPT !.kind = "sync", !.gistId = cfg.id, !.token = cfg.token]
         IN  IF ~Configured(cfg.id, cfg.token)
             THEN /\ Call(t, [r EXCEPT !.result = "skipped"])
                  /\ toast' = "Gist no configurado - omitiendo sincronización."
             ELSE /\ Call(t, [r EXCEPT !.pc = "getUsers"])
                  /\ toast' = "Sincronizando datos con Gist..."
    /\ UNCHANGED <<storeVars, uiVars, formVars, remote, endpoint, swVars, proStoreVars, remotePro>>

\* EvidenceModule.syncNow()
syncToGist(t) ==
    /\ syncToGistStart(t)
    /\ UNCHANGED captureVars

\* The timer of line 326 fires: syncToGist().catch(...)
syncTimer(t) ==
    /\ pendingSync > 0
    /\ pendingSync' = pendingSync - 1
    /\ syncToGistStart(t)
    /\ UNCHANGED <<activeUserId, tipoActual>>

SyncFailed(t) ==
    /\ Step(t, [task[t] EXCEPT !.pc = "done", !.result = "false"])
    /\ toast' = "Error sincronizando con Gist."

\* const users = await idbGetAll(STORES.USERS)
syncToGistUsers(t) ==
    /\ task[t].kind = "sync" /\ task[t].pc = "getUsers"
    /\ \E ok \in StorageOutcomes :
         IF ok
         THEN /\ Step(t, [task[t] EXCEPT !.pc = "getEvidences", !.allUsers = proUsers])
              /\ toast' = toast
         ELSE SyncFailed(t)
    /\ UNCHANGED <<storeVars, uiVars, formVars, remote, endpoint, swVars, proStoreVars, remotePro, captureVars>>

\* const evidences = await idbGetAll(STORES.EVIDENCES); the PATCH leaves
syncToGistEvidences(t) ==
    /\ task[t].kind = "sync" /\ task[t].pc = "getEvidences"
    /\ \E ok \in StorageOutcomes :
         IF ok
         THEN /\ Step(t, [task[t] EXCEPT !.pc = "patch",
                                         !.body = StringifyPro(task[t].allUsers, proEvidences)])
              /\ toast' = toast
         ELSE SyncFailed(t)
    /\ UNCHANGED <<storeVars, uiVars, formVars, remote, endpoint, swVars, proStoreVars, remotePro, captureVars>>

\* const res = await fetch(...): one request, no retry
syncToGistFetch(t) ==
    /\ task[t].kind = "sync" /\ task[t].pc = "patch"
    /\ \E status \in Respond(endpoint) :
         LET r == [task[t] EXCEPT !.requests = @ + 1]
         IN  /\ IF ResponseOk(status)
                THEN /\ remotePro' = task[t].body
                     /\ Step(t, [r EXCEPT !.pc = "done", !.result = "true"])
                     /\ toast' = "Sincronización con Gist finalizada."
                ELSE /\ remotePro' = remotePro
                     /\ Step(t, [r EXCEPT !.pc = "done", !.result = "false"])
                     /\ toast' = "Error sincronizando con Gist."
             /\ refused' = IF status = 404 THEN refused \cup {"module"} ELSE refused
    /\ UNCHANGED <<storeVars, syncStatus, notification, currentUserId, submitDisabled, savedConfig,
                   remote, endpoint, swVars, proStoreVars, captureVars>>

Next ==
    \/ \E u \in SelectableUsers : handleUserSelect(u)
    \/ \E t \in Slots :
        \/ \E form \in Forms : handleAttendanceSubmit(t, form)
        \/ handleAttendanceSubmitPut(t)
        \/ handleAttendanceSubmitGetAll(t)
        \/ handleAttendanceSubmitPutUser(t)
        \/ saveDataToGist(t, "g1", "ghp")
        \/ saveDataToGistRead(t)
        \/ \E g \in {"", "g1"} : initialDataLoad(t, g, "ghp")
        \/ initialDataLoadEvidences(t)
        \/ initialDataLoadSeed(t)
        \/ fetchWithBackoff(t)
        \/ backoff(t)
        \/ \E a \in InterleavedEvidenceArgs : saveEvidenceForUser(t, a)
        \/ saveEvidenceForUserPut(t)
        \/ syncToGist(t)
        \/ syncToGistUsers(t)
        \/ syncToGistEvidences(t)
        \/ syncToGistFetch(t)

Spec == Init /\ [][Next]_vars

\* ---- the sync client alone: one call at a time, any configuration, any
\* ---- sequence of answers
Sequential == \A t \in Slots : task[t].pc = "done"

InitRetry ==
    /\ InitApp
    /\ InitModule
    /\ InitServiceWorker
    /\ users \in {NoRecords, INITIAL_USERS}
    /\ expected = Totals(users)
    /\ remote \in {NoFile, OtherDeviceDoc}
    /\ proConfig \in ProConfigs
    /\ endpoint \in Endpoints
    /\ task = [t \in Slots |-> Idle]
    /\ calls = 0

NextRetry ==
    \E t \in Slots :
        \/ Sequential /\ \E g \in GistIds, k \in Tokens : saveDataToGist(t, g, k)
        \/ saveDataToGistRead(t)
        \/ Sequential /\ \E g \in GistIds, k \in Tokens : loadDataFromGist(t, g, k)
        \/ Sequential /\ \E g \in GistIds, k \in Tokens : initialDataLoad(t, g, k)
        \/ initialDataLoadEvidences(t)
        \/ initialDataLoadSeed(t)
        \/ fetchWithBackoff(t)
        \/ backoff(t)
        \/ Sequential /\ syncToGist(t)
        \/ syncToGistUsers(t)
        \/ syncToGistEvidences(t)
        \/ syncToGistFetch(t)

SpecRetry == InitRetry /\ [][NextRetry]_vars

\* ---- the evidence module alone, one call at a time
InitEvidence ==
    /\ InitApp
    /\ InitModule
    /\ InitServiceWorker
    /\ users = INITIAL_USERS
    /\ expected = Totals(users)
    /\ remote = NoFile
    /\ proConfig \in ProConfigs
    /\ endpoint \in {"up", "offline"}
    /\ task = [t \in Slots |-> Idle]
    /\ calls = 0

NextEvidence ==
    \E t \in Slots :
        \/ Sequential /\ \E a \in EvidenceArgs : saveEvidenceForUser(t, a)
        \/ saveEvidenceForUserPut(t)
        \/ Sequential /\ syncToGist(t)
        \/ syncToGistUsers(t)
        \/ syncToGistEvidences(t)
        \/ syncToGistFetch(t)

SpecEvidence == InitEvidence /\ [][NextEvidence]_vars

\* ---- one operator working with the app, one call at a time: attendance
\* ---- submissions, pushes and pulls against a configured gist
InitSession ==
    /\ InitApp
    /\ InitModule
    /\ InitServiceWorker
    /\ users = INITIAL_USERS
    /\ expected = Totals(users)
    /\ remote \in {NoFile, OtherDeviceDoc}
    /\ proConfig = [id |-> "g1", token |-> "ghp"]
    /\ endpoint \in {"up", "error"}
    /\ task = [t \in Slots |-> Idle]
    /\ calls = 0

NextSession ==
    \/ \E u \in SelectableUsers : handleUserSelect(u)
    \/ \E t \in Slots :
        \/ Sequential /\ \E form \in Forms : handleAttendanceSubmit(t, form)
        \/ handleAttendanceSubmitPut(t)
        \/ handleAttendanceSubmitGetAll(t)
        \/ handleAttendanceSubmitPutUser(t)
        \/ Sequential /\ saveDataToGist(t, "g1", "ghp")
        \/ saveDataToGistRead(t)
        \/ Sequential /\ loadDataFromGist(t, "g1", "ghp")
        \/ fetchWithBackoff(t)
        \/ backoff(t)

SpecSession == InitSession /\ [][NextSession]_vars

\* ---- the recording handlers of both scripts: the attendance form of the
\* ---- app and the capture buttons of the evidence module
InitCapture ==
    /\ InitApp
    /\ InitModule
    /\ InitServiceWorker
    /\ users = INITIAL_USERS
    /\ expected = Totals(users)
    /\ remote = NoFile
    /\ proConfig = [id |-> "g1", token |-> "ghp"]
    /\ endpoint \in {"up", "offline"}
    /\ task = [t \in Slots |-> Idle]
    /\ calls = 0

NextCapture ==
    \/ handleUserSelect(1)
    \/ setActiveUser(7)
    \/ \E tipo \in {"entrada", "salida"} : clickCapture(tipo)
    \/ \E t \in Slots :
        \/ \E form \in Forms : handleAttendanceSubmit(t, form)
        \/ handleAttendanceSubmitPut(t)
        \/ handleAttendanceSubmitGetAll(t)
        \/ handleAttendanceSubmitPutUser(t)
        \/ \E file \in PickedFiles, d \in SelectedDates : fileChange(t, file, d)
        \/ fileChangeResized(t)
        \/ fileChangeRecognized(t)
        \/ saveEvidenceForUserPut(t)
        \/ syncTimer(t)
        \/ syncToGistUsers(t)
        \/ syncToGistEvidences(t)
        \/ syncToGistFetch(t)

SpecCapture == InitCapture /\ [][NextCapture]_vars

\* ---- recognition in both scripts: the image upload of the attendance form
\* ---- and the capture of the evidence module, one call at a time
InitRecognition ==
    /\ InitApp
    /\ InitModule
    /\ InitServiceWorker
    /\ users = INITIAL_USERS
    /\ expected = Totals(users)
    /\ remote = NoFile
    /\ proConfig = [id |-> "", token |-> ""]
    /\ endpoint = "up"
    /\ task = [t \in Slots |-> Idle]
    /\ calls = 0

NextRecognition ==
    \/ handleUserSelect(1)
    \/ setActiveUser(7)
    \/ \E tipo \in {"entrada", "salida"} : clickCapture(tipo)
    \/ \E t \in Slots :
        \/ Sequential /\ \E file \in PickedFiles : handleImageUpload(t, file)
        \/ handleImageUploadLoaded(t)
        \/ handleImageUploadFilled(t)
        \/ Sequential /\ \E form \in Forms : submitAttendance(t, form)
        \/ handleAttendanceSubmitPut(t)
        \/ handleAttendanceSubmitGetAll(t)
        \/ handleAttendanceSubmitPutUser(t)
        \/ Sequential /\ \E file \in PickedFiles, d \in SelectedDates : fileChange(t, file, d)
        \/ fileChangeResized(t)
        \/ fileChangeRecognized(t)
        \/ saveEvidenceForUserPut(t)

SpecRecognition == InitRecognition /\ [][NextRecognition]_vars

\* ---- the configuration form and the load it starts, one call at a time
InitConfig ==
    /\ InitApp
    /\ InitModule
    /\ InitServiceWorker
    /\ users \in {NoRecords, INITIAL_USERS}
    /\ expected = Totals(users)
    /\ remote \in {NoFile, OtherDeviceDoc}
    /\ proConfig = [id |-> "", token |-> ""]
    /\ endpoint \in Endpoints
    /\ task = [t \in Slots |-> Idle]
    /\ calls = 0

NextConfig ==
    \E t \in Slots :
        \/ Sequential /\ \E g \in GistIds, k \in Tokens : handleConfigSubmit(t, g, k)
        \/ handleConfigSubmitSaved(t)
        \/ initialDataLoadEvidences(t)
        \/ fetchWithBackoff(t)
        \/ backoff(t)

SpecConfig == InitConfig /\ [][NextConfig]_vars

\* ---- sync after a refusal: the configuration form, the recording handlers of
\* ---- both scripts and the syncs they start, one call at a time
InitReconfigure ==
    /\ InitApp
    /\ InitModule
    /\ InitServiceWorker
    /\ users = INITIAL_USERS
    /\ expected = Totals(users)
    /\ remote = OtherDeviceDoc
    /\ proConfig = [id |-> "g1", token |-> "ghp"]
    /\ endpoint \in {"up", "notfound"}
    /\ task = [t \in Slots |-> Idle]
    /\ calls = 0

NextReconfigure ==
    \/ handleUserSelect(1)
    \/ setActiveUser(7)
    \/ \E t \in Slots :
        \/ Sequential /\ \E g \in GistIds, k \in Tokens : handleConfigSubmit(t, g, k)
        \/ handleConfigSubmitSaved(t)
        \/ initialDataLoadEvidences(t)
        \/ fetchWithBackoff(t)
        \/ backoff(t)
        \/ Sequential /\ \E form \in Forms : submitAttendance(t, form)
        \/ handleAttendanceSubmitPut(t)
        \/ handleAttendanceSubmitGetAll(t)
        \/ handleAttendanceSubmitPutUser(t)
        \/ Sequential /\ fileChange(t, "photo.jpg", "2024-01-10")
        \/ fileChangeResized(t)
        \/ fileChangeRecognized(t)
        \/ saveEvidenceForUserPut(t)
        \/ Sequential /\ syncToGist(t)
        \/ Sequential /\ syncTimer(t)
        \/ syncToGistUsers(t)
        \/ syncToGistEvidences(t)
        \/ syncToGistFetch(t)

SpecReconfigure == InitReconfigure /\ [][NextReconfigure]_vars

\* ---- pushes and pulls of the app behind each of the service workers, one
\* ---- call at a time
InitWorker ==
    /\ InitApp
    /\ InitModule
    /\ sw \in ServiceWorkers
    /\ swCache = NothingCached
    /\ servedFromCache = FALSE
    /\ users = INITIAL_USERS
    /\ expected = Totals(users)
    /\ remote \in {NoFile, OtherDeviceDoc}
    /\ proConfig = [id |-> "", token |-> ""]
    /\ endpoint \in {"up", "offline", "flaky"}
    /\ task = [t \in Slots |-> Idle]
    /\ calls = 0

NextWorker ==
    \E t \in Slots :
        \/ Sequential /\ saveDataToGist(t, "g1", "ghp")
        \/ saveDataToGistRead(t)
        \/ Sequential /\ loadDataFromGist(t, "g1", "ghp")
        \/ fetchThroughWorker(t)
        \/ backoff(t)

SpecWorker == InitWorker /\ [][NextWorker]_vars

\* ---- pushes and pulls of the app for every sequence of remote outcomes, one
\* ---- call at a time; a request that was sent is answered or fails, and a
\* ---- timer that was set fires
InitTerminate ==
    /\ InitApp
    /\ InitModule
    /\ InitServiceWorker
    /\ users = INITIAL_USERS
    /\ expected = Totals(users)
    /\ remote \in {NoFile, OtherDeviceDoc}
    /\ proConfig = [id |-> "", token |-> ""]
    /\ endpoint \in Endpoints
    /\ task = [t \in Slots |-> Idle]
    /\ calls = 0

Settles ==
    \E t \in Slots : saveDataToGistRead(t) \/ fetchWithBackoff(t) \/ backoff(t)

NextTerminate ==
    \/ \E t \in Slots :
        \/ Sequential /\ saveDataToGist(t, "g1", "ghp")
        \/ Sequential /\ loadDataFromGist(t, "g1", "ghp")
    \/ Settles

SpecTerminate == InitTerminate /\ [][NextTerminate]_vars /\ WF_vars(Settles)

\* ---- pushes among submissions: the attendance form is submitted while
\* ---- saveDataToGist runs, calls interleaving
InitSnapshot ==
    /\ InitApp
    /\ InitModule
    /\ InitServiceWorker
    /\ users = INITIAL_USERS
    /\ expected = Totals(users)
    /\ remote = NoFile
    /\ proConfig = [id |-> "g1", token |-> "ghp"]
    /\ endpoint \in {"up", "offline"}
    /\ task = [t \in Slots |-> Idle]
    /\ calls = 0

NextSnapshot ==
    \/ handleUserSelect(1)
    \/ \E t \in Slots :
        \/ \E form \in Forms : handleAttendanceSubmit(t, form)
        \/ handleAttendanceSubmitPut(t)
        \/ handleAttendanceSubmitGetAll(t)
        \/ handleAttendanceSubmitPutUser(t)
        \/ saveDataToGist(t, "g1", "ghp")
        \/ saveDataToGistRead(t)
        \/ fetchWithBackoff(t)
        \/ backoff(t)

SpecSnapshot == InitSnapshot /\ [][NextSnapshot]_vars

\* ---- the attendance form while a configuration is being saved and loaded:
\* ---- handleConfigSubmit and handleAttendanceSubmit, calls interleaving
InitLoading ==
    /\ InitApp
    /\ InitModule
    /\ InitServiceWorker
    /\ users = INITIAL_USERS
    /\ expected = Totals(users)
    /\ remote = OtherDeviceDoc
    /\ proConfig = [id |-> "g1", token |-> "ghp"]
    /\ endpoint \in {"up", "offline"}
    /\ task = [t \in Slots |-> Idle]
    /\ calls = 0

NextLoading ==
    \/ handleUserSelect(1)
    \/ \E t \in Slots :
        \/ handleConfigSubmit(t, "g1", "ghp")
        \/ handleConfigSubmitSaved(t)
        \/ initialDataLoadEvidences(t)
        \/ fetchWithBackoff(t)
        \/ backoff(t)
        \/ \E form \in Forms : handleAttendanceSubmit(t, form)
        \/ handleAttendanceSubmitPut(t)
        \/ handleAttendanceSubmitGetAll(t)
        \/ handleAttendanceSubmitPutUser(t)

SpecLoading == InitLoading /\ [][NextLoading]_vars

\* ======================= claims =======================

IsPrefix(p, q) == Len(p) <= Len(q) /\ \A n \in 1..Len(p) : p[n] = q[n]

\* C1 (as stated): against an endpoint that answers 404, a pull has failed as
\* soon as its first request is answered: one request, no wait, no further attempt.
C1_NotFoundOneAttempt ==
    \A t \in Slots :
        (task[t].kind = "pull" /\ endpoint = "notfound" /\ task[t].requests >= 1)
        => /\ task[t].requests = 1
           /\ task[t].waits = << >>
           /\ task[t].pc = "done"
           /\ task[t].result = "rejected"

\* C2: against an endpoint that always answers 500 (or another non-404 failure
\* status), a push makes exactly 5 requests, and the wait after attempt k is
\* 2^k seconds: 1, 2, 4, 8, 16 in that order.
C2_RetryBound ==
    \A t \in Slots :
        (task[t].kind = "push" /\ endpoint = "error" /\ task[t].gistId # "" /\ task[t].token # "")
        => /\ IsPrefix(task[t].waits, <<1, 2, 4, 8, 16>>)
           /\ task[t].pc = "fetch" => task[t].requests = Len(task[t].waits)
           /\ task[t].pc = "wait" => task[t].requests = Len(task[t].waits) + 1
           /\ (task[t].pc = "done" /\ task[t].result = "resolved")
                => /\ task[t].requests = 5
                   /\ task[t].waits = <<1, 2, 4, 8, 16>>

C2_Witness ==
    \E t \in Slots :
        /\ task[t].kind = "push" /\ endpoint = "error" /\ task[t].pc = "done"
        /\ task[t].requests = 5 /\ task[t].waits = <<1, 2, 4, 8, 16>>

\* C3 (as stated): when every attempt of a push is answered with a failure
\* status other than 404, the push ends with the error indication in
\* #sync-status, and the synchronized indication is never shown.
C3_ExhaustedPushShowsError ==
    endpoint = "error"
    => /\ syncStatus # "Sincronizado"
       /\ \A t \in Slots :
            (task[t].kind = "push" /\ task[t].pc = "done" /\ task[t].requests >= 1)
            => syncStatus = "Error de Sincronización"

StepOf(t) == task'[t] # task[t] \/ (calls' # calls /\ CanCall(t))

C5_LoadReplacesLocal ==
    [][\A t \in Slots :
         (task[t].kind = "load" /\ task[t].pc = "bulkEvidences" /\ task'[t].result = "loaded")
         => /\ users' = task[t].data.users
            /\ evidences' = task[t].data.evidences]_vars

\* C6 (as stated): when the pull of a configured initialDataLoad fails, the
\* stored records are kept, and an empty workers store is seeded with
\* INITIAL_USERS.
C6_FailedPullKeepsOrSeeds ==
    [][\A t \in Slots :
         (/\ task[t].kind = "load" /\ task[t].pc \in {"fetch", "wait"} /\ task'[t].pc = "done"
          /\ (endpoint \in {"notfound", "error", "offline"} \/ ~remote.exists))
         => /\ evidences' = evidences
            /\ users' = IF users = NoRecords THEN INITIAL_USERS ELSE users]_vars

\* C8: the remote document changes only when the PATCH of a push is answered
\* with success, and it then holds the snapshot that push carries, whichever
\* push was started first; so with two pushes in flight the one applied last
\* decides the document.
C8_LastPatchWins ==
    [][remote' # remote
       => \E t \in Slots :
            /\ task[t].kind = "push" /\ task[t].pc = "fetch"
            /\ task'[t].result = "resolved"
            /\ remote' = task[t].body]_vars

\* Every push has completed successfully, nothing is in flight, and the remote
\* document is not the local store.
C8_Witness ==
    /\ \A t \in Slots :
         task[t].kind = "push" /\ task[t].result = "resolved" /\ task[t].requests = 1
    /\ syncStatus = "Sincronizado"
    /\ remote # Stringify(users, evidences)

\* C9 (as stated): when a handleAttendanceSubmit ends successfully and no
\* other submission or load is in progress, each worker's totalAssists is its
\* value at the last bulk load or seeding plus the number of evidence records
\* stored for it since.
C9_TotalTracksEvidence ==
    [][\A t \in Slots :
         (/\ task[t].kind = "submit" /\ task[t].pc = "putUser" /\ task'[t].result = "saved"
          /\ \A u \in Slots \ {t} : task[u].pc = "done")
         => \A w \in DOMAIN users' \cap DOMAIN expected' :
              users'[w].totalAssists = expected'[w]]_vars

EvidenceSlot(record, tipo) == IF tipo = "entrada" THEN record.entrada ELSE record.salida

OtherTipo(tipo) == IF tipo = "entrada" THEN "salida" ELSE "entrada"

\* C10: when saveEvidenceForUser stores an image for a worker, date and kind
\* that already hold a different image, no record is added: the one record
\* workerId_date holds the new image in the slot of that kind, its other slot
\* is as it was, and every other record is untouched.
C10_SecondImageWins ==
    [][\A t \in Slots :
         LET a == task[t].args
             id == EvidenceId(a.userId, a.dateISO)
         IN  (/\ task[t].kind = "evidence" /\ task[t].pc = "put"
              /\ task'[t].result = "saved"
              /\ id \in DOMAIN proEvidences
              /\ EvidenceSlot(proEvidences[id], a.tipo) \notin {Null, a.dataUrl})
             => /\ DOMAIN proEvidences' = DOMAIN proEvidences
                /\ EvidenceSlot(proEvidences'[id], a.tipo) = a.dataUrl
                /\ EvidenceSlot(proEvidences'[id], OtherTipo(a.tipo))
                     = EvidenceSlot(proEvidences[id], OtherTipo(a.tipo))
                /\ proEvidences'[id].id = id
                /\ \A k \in DOMAIN proEvidences \ {id} : proEvidences'[k] = proEvidences[k]]_vars

C10_Witness ==
    \E t \in Slots :
        LET a == task[t].args
            id == EvidenceId(a.userId, a.dateISO)
        IN  /\ task[t].kind = "evidence" /\ task[t].result = "saved"
            /\ a.tipo = "entrada" /\ a.dataUrl = "data:img2"
            /\ Len(localIndex) = 3
            /\ localIndex[1].tipo = "salida"
            /\ \A n \in 1..3 : localIndex[n].id = id
            /\ localIndex[2].tipo = "entrada" /\ localIndex[3].tipo = "entrada"
            /\ DOMAIN proEvidences = {id}
            /\ proEvidences[id].entrada = "data:img2"
            /\ proEvidences[id].salida # Null

\* C11 (as stated): a check-in stored by saveEvidenceForUser for a worker and
\* date without a record raises the worker's totalAssists by one, sets its
\* lastAssistance to the date, and leaves the record workerId_date with the
\* check-in slot filled and the check-out slot null.
C11_CheckInCountsOnce ==
    [][\A t \in Slots :
         LET a == task[t].args
             id == EvidenceId(a.userId, a.dateISO)
         IN  (/\ task[t].kind = "evidence" /\ task[t].pc = "put"
              /\ task'[t].result = "saved"
              /\ a.tipo = "entrada"
              /\ id \notin DOMAIN proEvidences
              /\ a.userId \in DOMAIN proUsers)
             => /\ id \in DOMAIN proEvidences'
                /\ proEvidences'[id].entrada # Null
                /\ proEvidences'[id].salida = Null
                /\ proUsers'[a.userId].totalAssists = proUsers[a.userId].totalAssists + 1
                /\ proUsers'[a.userId].lastAssistance = a.dateISO]_vars

\* C12 (as stated): when the remote file is what a push of the present local
\* stores wrote (no mutation and no other push since), a pull that succeeds
\* returns workers and evidence records equal by value to the local ones.
C12_PushPullRoundTrip ==
    [][\A t \in Slots :
         (/\ task[t].kind = "pull" /\ task[t].pc = "fetch"
          /\ task'[t].result = "resolved"
          /\ remote = Stringify(users, evidences))
         => /\ task'[t].data.users = users
            /\ task'[t].data.evidences = evidences]_vars

\* C13: whatever request of a clearAndBulkAdd fails, the store it runs on
\* afterwards holds all of its old records or exactly the new sequence; the
\* other store is untouched.
C13_BulkReplaceIsAtomic ==
    [][\A t \in Slots :
         (task[t].kind = "load" /\ task[t].pc # "done" /\ task'[t] # task[t])
         => /\ task[t].pc \in {"fetch", "wait"}
                => users' \in {users, remote.users} /\ evidences' = evidences
            /\ task[t].pc = "seed"
                => users' \in {users, INITIAL_USERS} /\ evidences' = evidences
            /\ task[t].pc = "bulkEvidences"
                => evidences' \in {evidences, task[t].data.evidences} /\ users' = users]_vars

\* A pull has succeeded and the bulk replace of the workers was aborted: the
\* three default workers are all still there.
C13_Witness ==
    \E t \in Slots :
        /\ task[t].kind = "load" /\ task[t].result = "caught" /\ task[t].requests = 1
        /\ endpoint = "up" /\ remote = OtherDeviceDoc
        /\ users = INITIAL_USERS

\* C14 (as stated): a handleAttendanceSubmit whose local writes were done
\* reaches its end in that same turn, with the push started and not waited
\* for and the success notification shown.
C14_SubmitEndsWithoutNetwork ==
    [][\A t \in Slots :
         (/\ task[t].kind = "submit" /\ task[t].pc = "putUser"
          /\ task'[t].result # "storageError")
         => /\ task'[t].kind = "push"
            /\ task'[t].requests = 0
            /\ notification' = "success"]_vars

\* C15: when no worker is selected, an attempt to record evidence (the submit of
\* the attendance form, the change of the module's file input) returns at once:
\* no evidence record is written, no worker is changed, nothing is added to the
\* index, and no push is started or scheduled.
C15_NoWorkerRejected ==
    [][\A t \in Slots :
         ( /\ calls' # calls /\ CanCall(t)
           /\ \/ task'[t].kind = "submit" /\ currentUserId = 0
              \/ task'[t].kind = "change" /\ activeUserId = 0 )
         => /\ task'[t].pc = "done"
            /\ task'[t].requests = 0
            /\ UNCHANGED <<users, evidences, proUsers, proEvidences, localIndex, pendingSync>>]_vars

C15_Witness ==
    /\ currentUserId = 0 /\ activeUserId = 0
    /\ toast = "Selecciona un promotor antes de subir la evidencia."
    /\ \E t \in Slots : task[t].kind = "submit" /\ task[t].result = "noUser"
    /\ evidences = NoRecords /\ proEvidences = NoRecords /\ pendingSync = 0

\* C16: when the date value is empty, an attempt to record evidence (the submit
\* of the attendance form, the change of the module's file input with a file
\* picked) is rejected: the call ends at once, no evidence record is written,
\* no worker is changed and no push is started or scheduled.
C16_NoDateRejected ==
    [][\A t \in Slots :
         ( /\ calls' # calls /\ CanCall(t)
           /\ \/ task'[t].kind = "submit" /\ task'[t].form.date = ""
              \/ task'[t].kind = "change" /\ task'[t].args.dateISO = ""
                                          /\ task'[t].result # "noFile" )
         => /\ task'[t].pc = "done"
            /\ task'[t].requests = 0
            /\ UNCHANGED <<users, evidences, proUsers, proEvidences, localIndex, pendingSync>>]_vars

\* C17: when fileToDataURL rejects, the file-change handler ends in its catch:
\* no evidence record is written, no entry is added to the localStorage index,
\* and no push is scheduled or started.
C17_BadImageWritesNothing ==
    [][\A t \in Slots :
         ( /\ task[t].kind = "change" /\ task[t].pc = "resize"
           /\ task'[t] # task[t]
           /\ task'[t].args.dataUrl # "data:img1" )
         => /\ task'[t].pc = "done"
            /\ task'[t].result = "imageError"
            /\ task'[t].requests = 0
            /\ toast' = "Error procesando la imagen."
            /\ UNCHANGED <<proEvidences, localIndex, pendingSync>>]_vars

C17_Witness ==
    \E t \in Slots :
      /\ task[t].kind = "change" /\ task[t].result = "imageError"
      /\ task[t].args.dataUrl = Null
      /\ activeUserId = 7
      /\ proEvidences = NoRecords /\ localIndex = << >> /\ pendingSync = 0

\* C18: recognition never blocks recording. In the app, however the recognition
\* of an uploaded image ends, the attendance form can still be submitted; in the
\* evidence module, when the recognition has settled the record is saved (only a
\* storage failure prevents it), and a record saved without a recognition result
\* carries no recognized text.
C18_RecognitionNeverBlocks ==
    [][\A t \in Slots :
         /\ ( task[t].kind = "upload" /\ task[t].pc # "done" /\ task'[t].pc = "done" )
              => ~submitDisabled'
         /\ ( task[t].kind = "change" /\ task[t].pc = "ocr" /\ task'[t] # task[t]
              /\ task'[t].result # "imageError" )
              => task'[t].pc = "put"
         /\ ( task[t].kind = "change" /\ task[t].pc = "put" /\ task[t].args.ocrResult = Null
              /\ task'[t].result = "saved" )
              => LET rec == proEvidences'[EvidenceId(task[t].args.userId, task[t].args.dateISO)]
                 IN  IF task[t].args.tipo = "entrada"
                     THEN rec.validatedEntry = "true"
                     ELSE rec.validatedExit = "true"]_vars

\* C19: a configuration submitted with both a document id and a token is
\* persisted, and once it is the handler always calls initialDataLoad with the
\* submitted values; that load requests the remote document, and when the pull
\* succeeds it replaces the workers and then the evidence records by the
\* pulled ones.
C19_ConfigSubmitLoads ==
    [][\A t \in Slots :
         /\ ( calls' # calls /\ CanCall(t) /\ task'[t].kind = "config"
              /\ task'[t].gistId # "" /\ task'[t].token # "" /\ task'[t].result # "rejected" )
              => /\ savedConfig' = [found |-> TRUE,
                                    value |-> [gistId |-> task'[t].gistId, token |-> task'[t].token]]
                 /\ task'[t].pc = "saved"
         /\ ( task[t].kind = "config" /\ task[t].pc = "saved" /\ task'[t] # task[t] )
              => /\ task'[t].kind = "load" /\ task'[t].pc = "fetch"
                 /\ task'[t].gistId = savedConfig.value.gistId
                 /\ task'[t].token = savedConfig.value.token
                 /\ task'[t].requests = 0
         /\ ( task[t].kind = "load" /\ task[t].pc = "fetch" /\ task'[t].pc = "bulkEvidences" )
              => /\ task'[t].requests >= 1
                 /\ users' = remote.users
         /\ ( task[t].kind = "load" /\ task[t].pc = "bulkEvidences" /\ task'[t].result = "loaded" )
              => evidences' = remote.evidences]_vars

C19_Witness ==
    \E t \in Slots :
      /\ task[t].kind = "load" /\ task[t].result = "loaded" /\ task[t].requests >= 1
      /\ savedConfig = [found |-> TRUE, value |-> [gistId |-> "g1", token |-> "ghp"]]
      /\ remote = OtherDeviceDoc
      /\ users = remote.users /\ users # INITIAL_USERS
      /\ evidences = remote.evidences

\* C20: once a push or pull of a script has failed with 404, that script sends
\* no request to the remote document until a new sync configuration is saved
\* for it.
C20_NotFoundDisablesSync ==
    [][\A t \in Slots :
         ( task[t].pc \in {"fetch", "patch"} /\ task'[t].requests > task[t].requests )
         => IF task[t].kind = "sync" THEN "module" \notin refused ELSE "app" \notin refused]_vars

\* C21: no failure inside a push escapes: the promise returned by
\* saveDataToGist or by syncToGist never rejects, whichever local read or
\* remote call fails.
C21_PushNeverRejects ==
    \A t \in Slots :
      ( task[t].kind \in {"push", "sync"} /\ task[t].pc = "done" )
      => task[t].result # "rejected"

\* C22: every remote call of both scripts goes through the retry policy: when
\* the first request of a push or a pull is answered with a non-success status
\* other than 404, at least one further request is made before the operation
\* ends.
C22_TransientFailureRetried ==
    \A t \in Slots :
      ( /\ endpoint = "error"
        /\ task[t].kind \in {"push", "pull", "load", "sync"}
        /\ task[t].pc = "done"
        /\ task[t].requests >= 1 )
      => task[t].requests >= 2

\* C23: the sync configuration round-trips through local storage. In the app,
\* what getGistConfig returns is the id and token updateGistConfig stored, and
\* an empty id and token when nothing is stored; in the evidence module, a sync
\* in progress runs with the stored id and token.
C23_ConfigRoundTrips ==
    /\ getGistConfig = IF savedConfig.found
                       THEN [defined |-> TRUE, gistId |-> savedConfig.value.gistId,
                             token |-> savedConfig.value.token]
                       ELSE [defined |-> TRUE, gistId |-> "", token |-> ""]
    /\ \A t \in Slots :
         ( task[t].kind = "sync" /\ task[t].pc # "done" )
         => task[t].gistId = proConfig.id /\ task[t].token = proConfig.token

\* C24: the service worker never stores a response of api.github.com in a cache
\* and never answers a request to it from a cache.
C24_RemoteOriginNotCached ==
    /\ ~swCache.cached
    /\ ~servedFromCache

\* C25: every push and every pull terminates whatever the remote answers: a call
\* never makes more than 5 requests, and a call that has started eventually
\* ends, leaving its slot to the next call.
C25_PushAndPullTerminate ==
    /\ [](\A t \in Slots : task[t].requests <= Retries)
    /\ \A t \in Slots : (task[t].pc # "done") ~> (task[t].pc = "done")

C25_Witness ==
    \E t \in Slots :
      /\ task[t].kind \in {"push", "pull"} /\ task[t].pc = "done"
      /\ task[t].requests = Retries
      /\ endpoint = "flaky"
      /\ calls >= 2

\* C26: each put of handleAttendanceSubmit that succeeds adds exactly one
\* evidence record under an identity no stored record has, and leaves every
\* stored record as it was, also the records an earlier pull loaded.
C26_SubmitAppendsOne ==
    [][\A t \in Slots :
         ( /\ task'[t].kind = "submit" /\ task'[t].pc = "getAll"
           /\ ~(task[t].kind = "submit" /\ task[t].pc = "getAll") )
         => /\ \E k \in DOMAIN evidences' \ DOMAIN evidences :
                 DOMAIN evidences' = DOMAIN evidences \cup {k}
            /\ \A j \in DOMAIN evidences : evidences'[j] = evidences[j]]_vars

C26_Witness ==
    \E t \in Slots :
      /\ task[t].kind = "submit" /\ task[t].pc = "getAll"
      /\ DOMAIN evidences = {1, 2}
      /\ evidences[1] = OtherDeviceDoc.evidences[1]
      /\ evidences[2].userId = currentUserId
      /\ \E u \in Slots : task[u].kind = "load" /\ task[u].result = "loaded"

\* C27: with sync configured, every successful local mutation (a completed
\* handleAttendanceSubmit, a saveEvidenceForUser of the file-change handler)
\* starts exactly one push after its writes are done, and a mutation that
\* failed starts none.
C27_MutationStartsOnePush ==
    [][\A t \in Slots :
         /\ ( /\ task[t].kind = "submit" /\ task[t].pc = "putUser"
              /\ savedConfig.found
              /\ Configured(savedConfig.value.gistId, savedConfig.value.token) )
            => ( task'[t].kind = "push" <=> task'[t].result # "storageError" )
         /\ ( /\ task[t].kind = "change" /\ task[t].pc = "put"
              /\ Configured(proConfig.id, proConfig.token) )
            => pendingSync' = IF task'[t].result = "saved"
                              THEN pendingSync + 1 ELSE pendingSync]_vars

\* C28: local mutations never delete a worker. The put of
\* handleAttendanceSubmit changes only totalAssists and lastAssistance of the
\* selected worker and leaves every other worker record and the set of worker
\* identities as they were; saveEvidenceForUser changes no worker; a worker
\* leaves the store only in a step of initialDataLoad.
C28_MutationKeepsWorkers ==
    [][/\ \A t \in Slots :
            /\ ( task[t].kind = "submit" /\ task'[t] # task[t] )
               => /\ DOMAIN users' = DOMAIN users
                  /\ \A u \in DOMAIN users :
                       IF u = currentUserId /\ task[t].pc = "putUser"
                       THEN /\ users'[u].name = users[u].name
                            /\ users'[u].dni = users[u].dni
                       ELSE users'[u] = users[u]
            /\ ( task[t].kind \in {"evidence", "change"} /\ task'[t] # task[t] )
               => users' = users /\ proUsers' = proUsers
       /\ ( DOMAIN users \ DOMAIN users' # {} )
          => \E t \in Slots : task[t].kind = "load" /\ task'[t] # task[t]]_vars

\* C29: whenever fetchWithBackoff returns normally, what it returns is a
\* response with a success status; after any other sequence of outcomes (every
\* attempt answered with a non-success status, or failed on the network) it
\* throws.
C29_ReturnsOnlySuccess ==
    \A t \in Slots :
      /\ task[t].pc = "fetch"
         => \A status \in Statuses :
              LET r == FetchAttempt(task[t], status)
              IN  r.pc = "returned"
                  => IF status = 200 THEN r.ret = "response" ELSE r.ret = "threw"
      /\ task[t].pc = "wait"
         => LET r == FetchBackoff(task[t])
            IN  r.pc = "returned" => r.ret = "threw"

\* C30: the dataset a push sends is a snapshot of one instant: the workers list
\* and the evidence list of one payload are values the local stores held
\* together at some moment between the push's two reads, also when local
\* mutations run between them.
C30_PushSendsOneInstant ==
    [][\A t \in Slots :
         ( /\ task[t].kind = "push" /\ task[t].pc = "getEvidences"
           /\ task'[t].pc = "fetch" )
         => \E p \in held[t] \cup {<<users, evidences>>} :
              task'[t].body = Stringify(p[1], p[2])]_vars

\* C31: when two saveEvidenceForUser calls for the same worker and date, one
\* for check-in and one for check-out, have both read the store before either
\* wrote, the write of the second leaves both slots of the record filled.
C31_BothSlotsKept ==
    [][\A t \in Slots :
         LET id == EvidenceId(task[t].args.userId, task[t].args.dateISO)
         IN  ( /\ task[t].kind \in {"evidence", "change"} /\ task[t].pc = "put"
               /\ task'[t].result = "saved"
               /\ ~task[t].existing.found
               /\ id \in DOMAIN proEvidences
               /\ IF task[t].args.tipo = "entrada"
                  THEN proEvidences[id].salida # Null
                  ELSE proEvidences[id].entrada # Null )
             => /\ proEvidences'[id].entrada # Null
                /\ proEvidences'[id].salida # Null]_vars

\* C32: an image picked after pressing the check-in (or check-out) button is
\* saved in the slot of the button pressed for that pick and for the worker
\* active at that pick, even if the other button is pressed or the active
\* worker changes while the image is being resized or recognized.
C32_SavedAsPicked ==
    [][\A t \in Slots :
         ( /\ task[t].kind = "change" /\ task[t].pc \in {"resize", "ocr"}
           /\ task[t].args.tipo \in {"entrada", "salida"}
           /\ task'[t].pc = "put" )
         => /\ task'[t].args.tipo = task[t].args.tipo
            /\ task'[t].args.userId = task[t].args.userId]_vars

\* C33: a load cycle is all-or-nothing across both collections: when
\* initialDataLoad ends after the workers were replaced, either the workers
\* and the evidence records are both those of the pulled document, or both are
\* what they were before the pull.
C33_LoadAllOrNothing ==
    [][\A t \in Slots :
         ( /\ task[t].kind = "load" /\ task[t].pc = "bulkEvidences"
           /\ task'[t].pc = "done" )
         => \/ /\ users' = task[t].data.users
               /\ evidences' = task[t].data.evidences
            \/ /\ users' = task[t].allUsers
               /\ evidences' = evidences]_vars

\* C34: no local mutation runs while a load is in progress: between the start
\* and the end of an initialDataLoad no handleAttendanceSubmit writes to the
\* store.
C34_NoSubmitWhileLoading ==
    [][\A t \in Slots :
         ( /\ task'[t].kind = "submit" /\ task'[t] # task[t]
           /\ (evidences' # evidences \/ users' # users) )
         => \A u \in Slots : ~(task[u].kind = "load" /\ task[u].pc # "done")]_vars

\* C35: when handleAttendanceSubmit ends with the error notification of a
\* failed local save, the local store is unchanged: that submission added no
\* evidence record (it had not got past its put) and modified no worker.
C35_ErrorMeansUnchanged ==
    [][\A t \in Slots :
         ( /\ task'[t].kind = "submit" /\ task'[t].pc = "done"
           /\ task'[t] # task[t]
           /\ task'[t].result # "noUser"
           /\ notification' = "error" )
         => /\ users' = users
            /\ evidences' = evidences
            /\ ~(task[t].kind = "submit" /\ task[t].pc \in {"getAll", "putUser"})]_vars

\* C36: when every request fails with a network error, fetchWithBackoff makes
\* exactly 5 attempts, waits 1, 2, 4 and 8 seconds between them, does not wait
\* after the last one, and rethrows the error to its caller (the push shows
\* its error status, the pull rejects, the load shows its error status).
C36_NetworkErrorRetries ==
    \A t \in Slots :
      ( endpoint = "offline" /\ task[t].kind \in {"push", "pull", "load"} )
      => /\ IsPrefix(task[t].waits, <<1, 2, 4, 8>>)
         /\ task[t].pc = "fetch" => task[t].requests = Len(task[t].waits)
         /\ task[t].pc = "wait" => task[t].requests = Len(task[t].waits) + 1
         /\ ( task[t].pc = "done" /\ task[t].requests >= 1 )
            => /\ task[t].requests = 5
               /\ task[t].waits = <<1, 2, 4, 8>>
               /\ task[t].kind = "push" => syncStatus = "Error de Sincronización"
               /\ task[t].kind = "pull" => task[t].result = "rejected"
               /\ task[t].kind = "load" => syncStatus = "Error de Carga Remota"

C36_Witness ==
    \E t \in Slots :
      /\ endpoint = "offline" /\ task[t].kind = "push" /\ task[t].pc = "done"
      /\ task[t].requests = 5 /\ task[t].waits = <<1, 2, 4, 8>>
      /\ syncStatus = "Error de Sincronización"

\* C37: with no sync configuration (document id or token empty)
\* initialDataLoad makes no remote request, never changes the evidence
\* records, leaves a non-empty workers store as it is, and seeds an empty one
\* with exactly INITIAL_USERS (when the seeding transaction commits; an aborted
\* one leaves the store empty).
C37_UnconfiguredLoadSeeds ==
    [][\A t \in Slots :
         ( /\ task'[t].kind = "load" /\ task'[t] # task[t]
           /\ (task'[t].gistId = "" \/ task'[t].token = "") )
         => /\ task'[t].requests = 0
            /\ task'[t].pc \notin {"fetch", "wait", "bulkEvidences"}
            /\ evidences' = evidences
            /\ users' = IF users = NoRecords /\ task'[t].result = "local"
                        THEN INITIAL_USERS ELSE users]_vars

C37_Witness ==
    \E t \in Slots :
      /\ task[t].kind = "load" /\ task[t].gistId = "" /\ task[t].result = "local"
      /\ task[t].requests = 0
      /\ users = INITIAL_USERS /\ evidences = NoRecords
      /\ syncStatus = "Modo Local (Sin Gist)"

====
